---- MODULE Spec2Model ----
(***************************************************************************)
(* Model of function_app.py: the HTTP handlers of the feature-candidate    *)
(* API.  The database tables feature_candidates, tag_definitions and       *)
(* score_definitions are state; every database statement of a handler is   *)
(* one atomic step (each statement is its own connection and commit), so   *)
(* that concurrent requests interleave between statements.                 *)
(***************************************************************************)
EXTENDS Integers, Sequences, FiniteSets, TLC

VARIABLES feature_candidates, tag_definitions, score_definitions,
          calls, req,
          unset_env, gen, token_calls, notebook_calls,
          read

\* The state of the candidate workflow, of the notebook trigger, of the reads.
updVars == <<feature_candidates, tag_definitions, score_definitions, calls, req>>

genVars == <<unset_env, gen, token_calls, notebook_calls>>

readVars == <<read>>

vars == <<updVars, genVars, readVars>>

-----------------------------------------------------------------------------
(* Bounds *)

\* Number of updateFeatureCandidate requests received in one behaviour.
MaxCalls == 2

-----------------------------------------------------------------------------
(* Values *)

\* Python None / SQL NULL / an absent JSON key.
None == "None"

\* candidate_id values that name (possible) rows of feature_candidates.
CandIds == {"c1", "c2"}

\* Values of feature_candidates.type that the notebook job writes.
Types == {"tag", "score", "behavior_feature"}

Names == {"n1"}

\* The workers that serve requests concurrently, in the order they are tried.
Requests == {"r1", "r2"}

Earlier(q, r) == q = "r1" /\ r = "r2"

VALID_ACTIONS == {"adopt", "reject"}

\* No row of feature_candidates under a candidate_id.
NoRow == [type |-> None, name_proposed |-> None, description_proposed |-> None,
          status |-> None, updated_at |-> -1]

\* Request bodies.  kind: "invalid" is not JSON, "null" and "array" are JSON
\* values that are no object, "object" is a JSON object whose candidate_id and
\* action keys are absent (None) or hold the given string: every valid pair,
\* and pairs in which the candidate_id, the action or both are missing or bad.
Bodies ==
    {[kind |-> k, candidate_id |-> None, action |-> None] :
        k \in {"invalid", "null", "array"}}
    \cup
    {[kind |-> "object", candidate_id |-> i, action |-> a] :
        i \in CandIds, a \in VALID_ACTIONS}
    \cup
    {[kind |-> "object", candidate_id |-> i, action |-> "adopt"] : i \in {None, ""}}
    \cup
    {[kind |-> "object", candidate_id |-> "c1", action |-> a] : a \in {None, "delete"}}
    \cup
    {[kind |-> "object", candidate_id |-> None, action |-> None]}

\* func.HttpResponse: status code and the JSON body's keys (None when absent).
HttpResponse(code, message, candidate_id, status) ==
    [status_code |-> code, message |-> message,
     candidate_id |-> candidate_id, status |-> status]

NoResponse == HttpResponse(0, None, None, None)

\* The handler's locals.  kind is the kind of body received; pc is the
\* statement the call executes next; raised
\* says that an exception left the handler; rowcount is what the UPDATE
\* returned (-1 before it ran); tag_ins and score_ins are the rows this call
\* inserted, writes the UPDATE and INSERT statements it executed.
IdleReq ==
    [pc |-> "idle", kind |-> None,
     candidate_id |-> None, action |-> None, next_status |-> None, now |-> 0,
     rowcount |-> -1, c |-> NoRow, tag_ins |-> <<>>, score_ins |-> <<>>,
     writes |-> 0, raised |-> FALSE, resp |-> NoResponse]

-----------------------------------------------------------------------------
(* update_feature_candidate *)

\* req.get_json(): raises ValueError on a body that is not JSON.
GetJsonRaises(body) == body.kind = "invalid"

\* payload.get(...): raises AttributeError when the payload is no dict.
PayloadGetRaises(body) == body.kind \in {"null", "array"}

\* "not candidate_id or action not in (adopt, reject)"
InvalidInput(candidate_id, action) ==
    \/ candidate_id \in {None, ""}
    \/ action \notin VALID_ACTIONS

\* The mapping with the action ignored.
NextStatus_AlwaysAdopted(action) == "adopted"

NextStatus(action) == IF action = "adopt" THEN "adopted" ELSE "rejected"

\* datetime.now(tz=timezone.utc): the clock advances with every request.
UtcNow == calls + 1

\* The request arrives: get_json, validation, next_status and now.  A request
\* is served by the first worker that is free.
Receive(r, body) ==
    /\ req[r].pc \in {"idle", "done"}
    /\ \A q \in Requests : Earlier(q, r) => req[q].pc \notin {"idle", "done"}
    /\ calls < MaxCalls
    /\ calls' = calls + 1
    /\ LET fresh == [IdleReq EXCEPT !.kind = body.kind] IN
       req' = [req EXCEPT ![r] =
         IF GetJsonRaises(body)
         THEN [fresh EXCEPT !.pc = "done",
                            !.resp = HttpResponse(400, "Invalid JSON", None, None)]
         ELSE IF PayloadGetRaises(body)
         THEN [fresh EXCEPT !.pc = "done", !.raised = TRUE]
         ELSE IF InvalidInput(body.candidate_id, body.action)
         THEN [fresh EXCEPT !.pc = "done",
                            !.candidate_id = body.candidate_id,
                            !.action = body.action,
                            !.resp = HttpResponse(400,
                                "candidate_id and action are required.", None, None)]
         ELSE [fresh EXCEPT !.pc = "update",
                            !.candidate_id = body.candidate_id,
                            !.action = body.action,
                            !.next_status = NextStatus(body.action),
                            !.now = UtcNow]]
    /\ UNCHANGED <<feature_candidates, tag_definitions, score_definitions, genVars, readVars>>

\* "except Exception as e": the 500 answer of a statement that raised.
Fail(r) ==
    req' = [req EXCEPT ![r].pc = "done",
                       ![r].resp = HttpResponse(500, "db error", None, None)]

\* A match on the id alone, whether or not the table holds a row for it.
Matches_AnyId(candidate_id) == candidate_id \in CandIds

\* Rows that "WHERE candidate_id = ?" matches.
Matches(candidate_id) ==
    candidate_id \in CandIds /\ feature_candidates[candidate_id] # NoRow

\* UPDATE feature_candidates SET status = ?, updated_at = ? WHERE candidate_id = ?
UpdatedCandidates(candidate_id, next_status, now) ==
    IF Matches(candidate_id)
    THEN [feature_candidates EXCEPT ![candidate_id].status = next_status,
                                    ![candidate_id].updated_at = now]
    ELSE feature_candidates

\* 1) Update status; a reject returns right after it.
UpdateStatus(r) ==
    /\ req[r].pc = "update"
    /\ feature_candidates' =
         UpdatedCandidates(req[r].candidate_id, req[r].next_status, req[r].now)
    /\ req' = [req EXCEPT
         ![r].rowcount = IF Matches(req[r].candidate_id) THEN 1 ELSE 0,
         ![r].writes = @ + 1,
         ![r].pc = IF req[r].next_status # "adopted" THEN "done" ELSE "select",
         ![r].resp = IF req[r].next_status # "adopted"
                     THEN HttpResponse(200, None, req[r].candidate_id, req[r].next_status)
                     ELSE @]
    /\ UNCHANGED <<tag_definitions, score_definitions, calls, genVars, readVars>>

UpdateStatusRaises(r) ==
    /\ req[r].pc = "update"
    /\ Fail(r)
    /\ UNCHANGED <<feature_candidates, tag_definitions, score_definitions, calls, genVars, readVars>>

\* The SELECT step with a type that is neither "tag" nor "score" refused
\* instead of passed over.
SelectCandidate_UnknownTypeFails(r) ==
    /\ req[r].pc = "select"
    /\ req' = [req EXCEPT ![r] =
         IF ~Matches(req[r].candidate_id)
         THEN [@ EXCEPT !.pc = "done",
                        !.resp = HttpResponse(404, "Candidate not found.", None, None)]
         ELSE LET c == feature_candidates[req[r].candidate_id] IN
              IF c.type \in {"tag", "score"}
              THEN [@ EXCEPT !.pc = "insert", !.c = c]
              ELSE [@ EXCEPT !.pc = "done", !.c = c,
                             !.resp = HttpResponse(400, "unknown type", None, None)]]
    /\ UNCHANGED <<feature_candidates, tag_definitions, score_definitions, calls, genVars, readVars>>

\* 2) SELECT the adopted candidate; 404 without a row; a type that is neither
\* "tag" nor "score" goes straight to the 200 answer.
SelectCandidate(r) ==
    /\ req[r].pc = "select"
    /\ req' = [req EXCEPT ![r] =
         IF ~Matches(req[r].candidate_id)
         THEN [@ EXCEPT !.pc = "done",
                        !.resp = HttpResponse(404, "Candidate not found.", None, None)]
         ELSE LET c == feature_candidates[req[r].candidate_id] IN
              IF c.type \in {"tag", "score"}
              THEN [@ EXCEPT !.pc = "insert", !.c = c]
              ELSE [@ EXCEPT !.pc = "done", !.c = c,
                             !.resp = HttpResponse(200, None, req[r].candidate_id,
                                                   req[r].next_status)]]
    /\ UNCHANGED <<feature_candidates, tag_definitions, score_definitions, calls, genVars, readVars>>

SelectCandidateRaises(r) ==
    /\ req[r].pc = "select"
    /\ Fail(r)
    /\ UNCHANGED <<feature_candidates, tag_definitions, score_definitions, calls, genVars, readVars>>

\* The row with the positional parameters is_multi_valued and is_active swapped.
TagRow_Swapped(candidate_id, c, now) ==
    [tag_id |-> candidate_id, tag_code |-> c.name_proposed,
     tag_name |-> c.name_proposed, description |-> c.description_proposed,
     value_type |-> "string", source_type |-> "llm",
     is_multi_valued |-> 1, is_active |-> 0,
     created_at |-> now, updated_at |-> now]

\* The row of INSERT INTO tag_definitions.
TagRow(candidate_id, c, now) ==
    [tag_id |-> candidate_id, tag_code |-> c.name_proposed,
     tag_name |-> c.name_proposed, description |-> c.description_proposed,
     value_type |-> "string", source_type |-> "llm",
     is_multi_valued |-> 0, is_active |-> 1,
     created_at |-> now, updated_at |-> now]

\* The row of INSERT INTO score_definitions.
ScoreRow(candidate_id, c, now) ==
    [score_id |-> candidate_id, score_code |-> c.name_proposed,
     score_name |-> c.name_proposed, description |-> c.description_proposed,
     min_value |-> None, max_value |-> None,
     direction |-> "higher_is_better", source_type |-> "llm",
     refresh_interval |-> None, is_active |-> 1,
     created_at |-> now, updated_at |-> now]

\* The master table that c["type"] selects.
InsertsTag(c) == c.type = "tag"

InsertsScore(c) == ~InsertsTag(c) /\ c.type = "score"

\* 3) Insert into the proper master table, 4) return the response.
InsertDefinition(r) ==
    /\ req[r].pc = "insert"
    /\ LET tag == TagRow(req[r].candidate_id, req[r].c, req[r].now)
           score == ScoreRow(req[r].candidate_id, req[r].c, req[r].now)
       IN /\ tag_definitions' =
               IF InsertsTag(req[r].c) THEN Append(tag_definitions, tag)
               ELSE tag_definitions
          /\ score_definitions' =
               IF InsertsScore(req[r].c) THEN Append(score_definitions, score)
               ELSE score_definitions
          /\ req' = [req EXCEPT
               ![r].tag_ins = IF InsertsTag(req[r].c) THEN Append(@, tag) ELSE @,
               ![r].score_ins = IF InsertsScore(req[r].c) THEN Append(@, score) ELSE @,
               ![r].writes = @ + 1,
               ![r].pc = "done",
               ![r].resp = HttpResponse(200, None, req[r].candidate_id,
                                        req[r].next_status)]
    /\ UNCHANGED <<feature_candidates, calls, genVars, readVars>>

InsertDefinitionRaises(r) ==
    /\ req[r].pc = "insert"
    /\ Fail(r)
    /\ UNCHANGED <<feature_candidates, tag_definitions, score_definitions, calls, genVars, readVars>>

-----------------------------------------------------------------------------
(* Environment *)

\* The notebook job inserts a record into feature_candidates.
NotebookInsert(id, type, name) ==
    /\ feature_candidates[id] = NoRow
    /\ feature_candidates' = [feature_candidates EXCEPT ![id] =
         [type |-> type, name_proposed |-> name, description_proposed |-> "d1",
          status |-> "new", updated_at |-> calls]]
    /\ UNCHANGED <<tag_definitions, score_definitions, calls, req, genVars, readVars>>

-----------------------------------------------------------------------------
(* JSON values and Python's int() *)

\* A JSON value (or a query-string value) as int() sees it.  t is its type:
\* "int" with value n; "float" with value n tenths (25 is 2.5); "nan" (NaN or
\* an infinity, which json.loads accepts); "bool" with n = 1 for true; "null";
\* "array"; "str" with the characters s.
Val(t, n, s) == [t |-> t, n |-> n, s |-> s]

IntVal(n) == Val("int", n, <<>>)

FloatVal(tenths) == Val("float", tenths, <<>>)

StrVal(s) == Val("str", 0, s)

BoolVal(b) == Val("bool", IF b THEN 1 ELSE 0, <<>>)

Digits == {"0", "1", "2", "3", "4", "5", "6", "7", "8", "9"}

DigitValue(ch) ==
    CASE ch = "0" -> 0 [] ch = "1" -> 1 [] ch = "2" -> 2 [] ch = "3" -> 3
      [] ch = "4" -> 4 [] ch = "5" -> 5 [] ch = "6" -> 6 [] ch = "7" -> 7
      [] ch = "8" -> 8 [] ch = "9" -> 9

\* str.strip(): the string without its leading and trailing blanks.
RECURSIVE LStrip(_)
LStrip(s) == IF s # <<>> /\ Head(s) = " " THEN LStrip(Tail(s)) ELSE s

RECURSIVE RStrip(_)
RStrip(s) ==
    IF s # <<>> /\ s[Len(s)] = " " THEN RStrip(SubSeq(s, 1, Len(s) - 1)) ELSE s

Strip(s) == RStrip(LStrip(s))

\* The value of a string of decimal digits.
RECURSIVE DigitsValue(_)
DigitsValue(s) ==
    IF s = <<>> THEN 0
    ELSE 10 * DigitsValue(SubSeq(s, 1, Len(s) - 1)) + DigitValue(s[Len(s)])

AllDigits(s) == s # <<>> /\ \A i \in DOMAIN s : s[i] \in Digits

\* The result of int(): ok is FALSE when it raises.
IntResult(ok, n) == [ok |-> ok, n |-> n]

Raised == IntResult(FALSE, 0)

\* int(str): blanks stripped, an optional sign, then decimal digits only.
IntOfStr(s) ==
    LET t == Strip(s)
        signed == t # <<>> /\ Head(t) \in {"+", "-"}
        body == IF signed THEN Tail(t) ELSE t
    IN  IF ~AllDigits(body) THEN Raised
        ELSE IF signed /\ Head(t) = "-" THEN IntResult(TRUE, -DigitsValue(body))
        ELSE IntResult(TRUE, DigitsValue(body))

\* int(float): truncation toward zero.
Trunc(tenths) == IF tenths >= 0 THEN tenths \div 10 ELSE -((-tenths) \div 10)

\* int(value)
PyInt(v) ==
    CASE v.t = "int" -> IntResult(TRUE, v.n)
      [] v.t = "bool" -> IntResult(TRUE, v.n)
      [] v.t = "float" -> IntResult(TRUE, Trunc(v.n))
      [] v.t = "str" -> IntOfStr(v.s)
      [] OTHER -> Raised

Min(a, b) == IF a <= b THEN a ELSE b

Max(a, b) == IF a >= b THEN a ELSE b

\* dict.get(key, default)
DictGet(d, key, default) == IF key \in DOMAIN d THEN d[key] ELSE default

-----------------------------------------------------------------------------
(* generate_tag_candidates *)

DEFAULT_SAMPLE_SIZE == 1000
DEFAULT_MAX_CANDIDATES == 10
DEFAULT_MIN_CANDIDATES == 3

\* The environment settings the notebook trigger reads.
Settings == {"FABRIC_WORKSPACE_ID", "FABRIC_ARTIFACT_ID", "FABRIC_TENANT_ID",
             "FABRIC_CLIENT_ID", "FABRIC_CLIENT_SECRET"}

Reserved == {"sample_size", "max_candidates", "min_candidates"}

\* The keys of request bodies: the reserved names and one other name.
Keys == Reserved \cup {"segment"}

\* The values a key of a request body takes.
Numbers == {IntVal(n) : n \in {-1, 0, 1, 5, 8, 11, 5000, 5001}}
           \cup {FloatVal(t) : t \in {-5, 109}}

Others == {Val("nan", 0, <<>>), BoolVal(TRUE), Val("null", 0, <<>>),
           StrVal(<<"7">>), StrVal(<<"a">>)}

Vals == Numbers \cup Others

\* The values the key that is not reserved takes.
SegmentVals == {StrVal(<<"a">>), IntVal(5)}

\* A JSON object: the keys that are present, each with its value.
Objects ==
    UNION {{o \in [ks -> Vals \cup SegmentVals] :
              \A k \in ks : k \notin Reserved => o[k] \in SegmentVals} :
           ks \in SUBSET Keys}

EmptyDict == [k \in {} |-> IntVal(0)]

\* Request bodies: kind "invalid" is not JSON, "falsy" is null, [], "", 0 or
\* false, "array" is another JSON value that is no object.
GenBodies ==
    {[kind |-> k, payload |-> EmptyDict] : k \in {"invalid", "falsy", "array"}}
    \cup {[kind |-> "object", payload |-> o] : o \in Objects}

\* "payload = req.get_json() or {}", {} also when get_json raises.  A payload
\* that is no dict stays as it is.
GenPayload(body) == IF body.kind = "object" THEN body.payload ELSE EmptyDict

\* max(1, min(5000, int(payload.get("sample_size", DEFAULT_SAMPLE_SIZE))))
SampleSize(payload) ==
    LET i == PyInt(DictGet(payload, "sample_size", IntVal(DEFAULT_SAMPLE_SIZE)))
    IN  IntResult(i.ok, Max(1, Min(5000, i.n)))

\* max(1, min(10, int(payload.get("max_candidates", DEFAULT_MAX_CANDIDATES))))
MaxCandidates(payload) ==
    LET i == PyInt(DictGet(payload, "max_candidates", IntVal(DEFAULT_MAX_CANDIDATES)))
    IN  IntResult(i.ok, Max(1, Min(10, i.n)))

\* The clamp of min_candidates against the constant 10.
MinCandidates_Against10(payload, max_candidates) ==
    LET i == PyInt(DictGet(payload, "min_candidates", IntVal(DEFAULT_MIN_CANDIDATES)))
    IN  IntResult(i.ok, Max(1, Min(10, i.n)))

\* max(1, min(max_candidates, int(payload.get("min_candidates", DEFAULT_MIN_CANDIDATES))))
MinCandidates(payload, max_candidates) ==
    LET i == PyInt(DictGet(payload, "min_candidates", IntVal(DEFAULT_MIN_CANDIDATES)))
    IN  IntResult(i.ok, Max(1, Min(max_candidates, i.n)))

\* The try block of the three conversions: FALSE when one of them raises.
NumbersOk(body) ==
    /\ body.kind # "array"
    /\ SampleSize(GenPayload(body)).ok
    /\ MaxCandidates(GenPayload(body)).ok
    /\ MinCandidates(GenPayload(body), MaxCandidates(GenPayload(body)).n).ok

\* notebook_payload: the three clamped numbers, then every other key of the
\* payload (values are kept as JSON values, the clamped ones as int values).
NotebookPayload(payload) ==
    LET clamped == [k \in Reserved |->
            CASE k = "sample_size" -> IntVal(SampleSize(payload).n)
              [] k = "max_candidates" -> IntVal(MaxCandidates(payload).n)
              [] k = "min_candidates" ->
                   IntVal(MinCandidates(payload, MaxCandidates(payload).n).n)]
    IN  [k \in Reserved \cup DOMAIN payload |->
            IF k \in Reserved THEN clamped[k] ELSE payload[k]]

\* The answers of generate_tag_candidates.
GenResponse(code, message, upstream) ==
    [status_code |-> code, message |-> message, upstream_status |-> upstream]

GenIdle ==
    [pc |-> "idle", body |-> [kind |-> "invalid", payload |-> EmptyDict],
     notebook_payload |-> EmptyDict, access_token |-> None,
     resp |-> GenResponse(0, None, 0)]

\* The request arrives: get_json, the three conversions, notebook_payload.
\* The handler keeps nothing between requests, so one request is followed.
GenReceive(body) ==
    /\ gen.pc = "idle"
    /\ UNCHANGED <<token_calls, notebook_calls, updVars, readVars>>
    /\ gen' =
         IF ~NumbersOk(body)
         THEN [GenIdle EXCEPT !.pc = "done", !.body = body,
                 !.resp = GenResponse(400,
                   "sample_size, max_candidates, min_candidates must be numbers.", 0)]
         ELSE [GenIdle EXCEPT !.pc = "token", !.body = body,
                 !.notebook_payload = NotebookPayload(GenPayload(body))]
    /\ UNCHANGED <<unset_env, updVars, readVars>>

\* "except Exception as e" of generate_tag_candidates.
GenFail(message) ==
    gen' = [gen EXCEPT !.pc = "done", !.resp = GenResponse(500, message, 0)]

\* The settings _call_fabric_notebook and _get_fabric_access_token check, in
\* the order they check them, before the first request is sent.
CheckedSettings ==
    <<"FABRIC_WORKSPACE_ID", "FABRIC_ARTIFACT_ID", "FABRIC_TENANT_ID",
      "FABRIC_CLIENT_ID", "FABRIC_CLIENT_SECRET">>

FirstUnset ==
    LET bad == {i \in DOMAIN CheckedSettings : CheckedSettings[i] \in unset_env}
    IN  IF bad = {} THEN None
        ELSE CheckedSettings[CHOOSE i \in bad : \A j \in bad : i <= j]

\* A setting is missing: RuntimeError before any request is sent.
GenNotConfigured ==
    /\ gen.pc = "token"
    /\ FirstUnset # None
    /\ GenFail("not set")
    /\ UNCHANGED <<unset_env, token_calls, notebook_calls, updVars, readVars>>

\* _get_fabric_access_token: the POST to the token endpoint and its outcomes:
\* "token" is a 2xx answer with an access_token; every other outcome raises.
TokenOutcomes == {"token", "not ok", "no json", "no access_token", "timeout"}

GenGetToken(outcome) ==
    /\ gen.pc = "token"
    /\ FirstUnset = None
    /\ token_calls' = token_calls + 1
    /\ IF outcome = "token"
       THEN gen' = [gen EXCEPT !.pc = "notebook", !.access_token = "token"]
       ELSE GenFail(outcome)
    /\ UNCHANGED <<unset_env, notebook_calls, updVars, readVars>>

\* The statuses the job endpoint answers with.
UpstreamStatuses == {200, 201, 202, 400, 500}

\* The POST of notebook_payload to the job endpoint, and the answer built
\* from its status; upstream 0 is a request that raised (a timeout).
GenPostNotebook(upstream) ==
    /\ gen.pc = "notebook"
    /\ notebook_calls' = Append(notebook_calls, gen.notebook_payload)
    /\ gen' = [gen EXCEPT !.pc = "done", !.resp =
         IF upstream = 0 THEN GenResponse(500, "timeout", 0)
         ELSE IF upstream \notin {200, 201, 202}
         THEN GenResponse(502, "Failed to trigger Fabric notebook.", upstream)
         ELSE GenResponse(200, "Fabric notebook triggered.", upstream)]
    /\ UNCHANGED <<unset_env, token_calls, updVars, readVars>>

-----------------------------------------------------------------------------
(* _clamp_limit, get_tag_definitions, get_score_definitions *)

\* Longest value of the limit query parameter.
MaxLen == 4

\* The characters of limit values; "a" stands for a character that is no
\* digit, sign or blank.
LimitChars == {"0", "1", "2", "-", " ", "a"}

LimitStrings == UNION {[1..k -> LimitChars] : k \in 0..MaxLen}

\* The clamp without its lower bound.
ClampLimit_NoFloor(value, default, max_limit) ==
    IF ~PyInt(value).ok THEN default ELSE Min(max_limit, PyInt(value).n)

\* _clamp_limit(value, default, max_limit)
ClampLimit(value, default, max_limit) ==
    IF ~PyInt(value).ok THEN default ELSE Max(1, Min(max_limit, PyInt(value).n))

\* The query strings: limit and include_inactive, each absent or a string.
IncludeStrings == {<<"T", "r", "u", "e">>, <<"n", "o">>}

QueryParams ==
    LET limits == {EmptyDict} \cup {[limit |-> StrVal(x)] : x \in LimitStrings}
        includes == {EmptyDict} \cup {[include_inactive |-> StrVal(x)] : x \in IncludeStrings}
    IN  {[k \in DOMAIN l \cup DOMAIN i |-> IF k \in DOMAIN l THEN l[k] ELSE i[k]] :
            l \in limits, i \in includes}

\* _clamp_limit(req.params.get("limit", 200))
RequestLimit(params) == ClampLimit(DictGet(params, "limit", IntVal(200)), 200, 2000)

\* str.lower() on the letters that occur.
LowerChar(ch) == IF ch = "T" THEN "t" ELSE ch

Lower(s) == [i \in DOMAIN s |-> LowerChar(s[i])]

\* str(req.params.get("include_inactive", "false")).lower() in ("1", "true", "yes")
IncludeInactive(params) ==
    Lower(DictGet(params, "include_inactive", StrVal(<<"f", "a", "l", "s", "e">>)).s)
        \in {<<"1">>, <<"t", "r", "u", "e">>, <<"y", "e", "s">>}

\* ORDER BY created_at DESC: the row created last comes first.
RECURSIVE OrderByCreatedDesc(_)
OrderByCreatedDesc(rows) ==
    IF rows = <<>> THEN <<>>
    ELSE LET i == CHOOSE i \in DOMAIN rows :
                    \A j \in DOMAIN rows :
                        \/ rows[j].created_at < rows[i].created_at
                        \/ rows[j].created_at = rows[i].created_at /\ i <= j
             rest == [j \in 1..(Len(rows) - 1) |-> IF j < i THEN rows[j] ELSE rows[j + 1]]
         IN  <<rows[i]>> \o OrderByCreatedDesc(rest)

\* SELECT TOP (limit) ... [WHERE is_active = 1] ORDER BY created_at DESC
SelectTop(limit, table, include_inactive) ==
    LET kept == SelectSeq(table, LAMBDA row : include_inactive \/ row.is_active = 1)
        ordered == OrderByCreatedDesc(kept)
    IN  SubSeq(ordered, 1, Min(limit, Len(ordered)))

ReadHandlers == {"getTagDefinitions", "getScoreDefinitions"}

ReadResponse(code, message, rows) ==
    [status_code |-> code, message |-> message, rows |-> rows]

ReadIdle ==
    [pc |-> "idle", handler |-> None, params |-> EmptyDict, limit |-> 0,
     resp |-> ReadResponse(0, None, <<>>)]

\* A GET request answered with the rows its query returns.
ReadRows(handler, params) ==
    /\ read.pc = "idle"
    /\ LET limit == RequestLimit(params)
           table == IF handler = "getTagDefinitions" THEN tag_definitions
                    ELSE score_definitions
       IN read' = [pc |-> "done", handler |-> handler, params |-> params,
                   limit |-> limit,
                   resp |-> ReadResponse(200, None,
                              SelectTop(limit, table, IncludeInactive(params)))]
    /\ UNCHANGED <<updVars, genVars>>

\* A GET request whose query raises.
ReadRaises(handler, params) ==
    /\ read.pc = "idle"
    /\ read' = [pc |-> "done", handler |-> handler, params |-> params,
                limit |-> RequestLimit(params),
                resp |-> ReadResponse(500, "db error", <<>>)]
    /\ UNCHANGED <<updVars, genVars>>

-----------------------------------------------------------------------------

\* No candidate yet, empty definition tables, idle workers.
InitUpdate ==
    /\ feature_candidates = [id \in CandIds |-> NoRow]
    /\ tag_definitions = <<>>
    /\ score_definitions = <<>>
    /\ calls = 0
    /\ req = [r \in Requests |-> IdleReq]

\* The process environment with the settings of missing unset.
InitTrigger(missing) ==
    /\ unset_env = missing
    /\ gen = GenIdle
    /\ token_calls = 0
    /\ notebook_calls = <<>>

InitRead == read = ReadIdle

Init == InitUpdate /\ InitTrigger({}) /\ InitRead

Next ==
    \/ \E r \in Requests, body \in Bodies : Receive(r, body)
    \/ \E r \in Requests : UpdateStatus(r)
    \/ \E r \in Requests : UpdateStatusRaises(r)
    \/ \E r \in Requests : SelectCandidate(r)
    \/ \E r \in Requests : SelectCandidateRaises(r)
    \/ \E r \in Requests : InsertDefinition(r)
    \/ \E r \in Requests : InsertDefinitionRaises(r)
    \/ \E id \in CandIds, type \in Types, name \in Names : NotebookInsert(id, type, name)

\* The candidate workflow: requests to updateFeatureCandidate and the notebook
\* job that creates candidates.
Spec == Init /\ [][Next]_vars

\* The notebook trigger, under every configuration with at most one setting
\* missing.
InitGen ==
    /\ InitUpdate
    /\ \E missing \in {{}} \cup {{x} : x \in Settings} : InitTrigger(missing)
    /\ InitRead

NextGen ==
    \/ gen.pc = "idle" /\ \E body \in GenBodies : GenReceive(body)
    \/ GenNotConfigured
    \/ \E outcome \in TokenOutcomes : GenGetToken(outcome)
    \/ \E upstream \in UpstreamStatuses \cup {0} : GenPostNotebook(upstream)

SpecGen == InitGen /\ [][NextGen]_vars

\* Definition tables as earlier adoptions and other writers left them.
SampleCandidate == [NoRow EXCEPT !.name_proposed = "n1", !.description_proposed = "d1"]

SampleTags ==
    <<TagRow("c1", SampleCandidate, 1),
      [TagRow("c2", SampleCandidate, 2) EXCEPT !.is_active = 0],
      TagRow("c2", SampleCandidate, 3)>>

SampleScores ==
    <<ScoreRow("c1", SampleCandidate, 2), ScoreRow("c2", SampleCandidate, 1)>>

\* The reads, over definition tables of every sample size.
InitReads ==
    /\ feature_candidates = [id \in CandIds |-> NoRow]
    /\ \E n \in 0..Len(SampleTags) :
         /\ tag_definitions = SubSeq(SampleTags, 1, n)
         /\ score_definitions = SubSeq(SampleScores, 1, Min(n, Len(SampleScores)))
    /\ calls = 0
    /\ req = [r \in Requests |-> IdleReq]
    /\ InitTrigger({})
    /\ InitRead

NextRead ==
    \/ read.pc = "idle" /\ \E handler \in ReadHandlers, params \in QueryParams :
                              ReadRows(handler, params)
    \/ read.pc = "idle" /\ \E handler \in ReadHandlers, params \in QueryParams :
                              ReadRaises(handler, params)

SpecRead == InitReads /\ [][NextRead]_vars

-----------------------------------------------------------------------------
(* Claims about update_feature_candidate *)

InFlight(r) == req[r].pc \notin {"idle", "done"}

Done(r) == req[r].pc = "done"

\* The rows of a definition table that were promoted from candidate id.
TagRowsOf(id) == {i \in DOMAIN tag_definitions : tag_definitions[i].tag_id = id}

ScoreRowsOf(id) == {i \in DOMAIN score_definitions : score_definitions[i].score_id = id}

\* C1: a candidate whose status is "adopted" or "rejected" never changes
\* status again (status changes only from "new").
C1_StatusOnlyFromNew ==
    [][\A id \in CandIds :
         feature_candidates[id].status \in {"adopted", "rejected"}
         => feature_candidates'[id].status = feature_candidates[id].status]_vars

\* C2: for every candidate_id at most one row is ever inserted into
\* tag_definitions and score_definitions together.
C2_PromotedAtMostOnce ==
    \A id \in CandIds : Cardinality(TagRowsOf(id)) + Cardinality(ScoreRowsOf(id)) <= 1

\* The tag_definitions row that adopting candidate id promises.
IsPromotedTag(row, id) ==
    /\ row.tag_id = id
    /\ row.value_type = "string"
    /\ row.source_type = "llm"
    /\ row.is_multi_valued = 0
    /\ row.is_active = 1

\* The score_definitions row that adopting candidate id promises.
IsPromotedScore(row, id) ==
    /\ row.score_id = id
    /\ row.direction = "higher_is_better"
    /\ row.source_type = "llm"
    /\ row.is_active = 1
    /\ row.min_value = None
    /\ row.max_value = None
    /\ row.refresh_interval = None

\* What a finished adopt call on a candidate of the given type has inserted.
InsertedByType(r, type) ==
    /\ type = "tag" =>
         /\ Len(req[r].tag_ins) = 1
         /\ IsPromotedTag(req[r].tag_ins[1], req[r].candidate_id)
         /\ req[r].score_ins = <<>>
    /\ type = "score" =>
         /\ Len(req[r].score_ins) = 1
         /\ IsPromotedScore(req[r].score_ins[1], req[r].candidate_id)
         /\ req[r].tag_ins = <<>>

RejectedAt(id, now) ==
    [i \in CandIds |->
        IF i = id /\ feature_candidates[i] # NoRow
        THEN [feature_candidates[i] EXCEPT !.status = "rejected", !.updated_at = now]
        ELSE feature_candidates[i]]

\* A step of the call of worker r, which is a reject call.
RejectStep(r) == req[r].action = "reject" /\ InFlight(r) /\ req'[r] # req[r]

\* C4 as stated: a reject call leaves both definition tables unchanged, sets
\* only the candidate's status and updated_at, and answers 200 with
\* {candidate_id, status: "rejected"}.
C4_RejectAnswers200 ==
    [][\A r \in Requests : RejectStep(r) =>
         /\ UNCHANGED <<tag_definitions, score_definitions>>
         /\ req'[r].pc = "done"
         /\ req'[r].resp = HttpResponse(200, None, req[r].candidate_id, "rejected")
         /\ feature_candidates' = RejectedAt(req[r].candidate_id, req[r].now)]_vars

\* C4 (amended): a reject call leaves both definition tables unchanged,
\* whatever the candidate's type and status and whether or not it exists; when
\* its UPDATE does not raise it sets only the candidate's status to "rejected"
\* and its updated_at and answers 200 with {candidate_id, status: "rejected"};
\* when the UPDATE raises it answers 500.
C4_RejectFrame ==
    [][\A r \in Requests : RejectStep(r) =>
         /\ UNCHANGED <<tag_definitions, score_definitions>>
         /\ req'[r].pc = "done"
         /\ req'[r].tag_ins = <<>> /\ req'[r].score_ins = <<>>
         /\ \/ /\ req'[r].resp = HttpResponse(200, None, req[r].candidate_id, "rejected")
               /\ feature_candidates' = RejectedAt(req[r].candidate_id, req[r].now)
            \/ /\ req'[r].resp.status_code = 500
               /\ req'[r].resp.message # None]_vars

C4_Witness ==
    \E r \in Requests :
        /\ Done(r) /\ req[r].action = "reject"
        /\ req[r].resp = HttpResponse(200, None, req[r].candidate_id, "rejected")
        /\ req[r].rowcount = 1
        /\ feature_candidates[req[r].candidate_id].status = "rejected"
        /\ feature_candidates[req[r].candidate_id].type = "tag"
        /\ feature_candidates[req[r].candidate_id].updated_at = req[r].now
        /\ tag_definitions = <<>>

\* The body has no non-empty candidate_id, or an action that is neither
\* "adopt" nor "reject", or is not a JSON object at all.
BadRequest(r) ==
    \/ req[r].kind # "object"
    \/ req[r].candidate_id \in {None, ""}
    \/ req[r].action \notin {"adopt", "reject"}

\* C5: a request without a non-empty candidate_id or with an action that is
\* not adopt/reject (bodies that are not JSON or not an object included) is
\* answered 400 and executes no UPDATE or INSERT.
C5_BadRequestIs400 ==
    \A r \in Requests :
        (req[r].pc # "idle" /\ BadRequest(r))
        => /\ Done(r)
           /\ req[r].resp.status_code = 400
           /\ req[r].writes = 0

\* C6: no exception leaves the handler; every answer that is not a 200 is a
\* 4xx/5xx with a {"message": ...} body.
C6_NoExceptionEscapes ==
    \A r \in Requests :
        Done(r) =>
            /\ ~req[r].raised
            /\ req[r].resp.status_code \in {200, 400, 404, 500}
            /\ req[r].resp.status_code # 200 => req[r].resp.message # None

\* C7: an adopt call whose re-fetch finds no candidate row answers 404
\* "Candidate not found." and has inserted nothing; a 404 is answered to
\* nothing else; and an UPDATE that finds no row leaves feature_candidates
\* unchanged.
C7_AdoptMissingIs404 ==
    /\ [](\A r \in Requests :
            (Done(r) /\ req[r].resp.status_code = 404)
            => /\ req[r].action = "adopt"
               /\ req[r].resp.message = "Candidate not found."
               /\ req[r].tag_ins = <<>> /\ req[r].score_ins = <<>>
               /\ req[r].writes = 1)
    /\ [][\A r \in Requests :
            /\ ( /\ req[r].pc = "select"
                 /\ feature_candidates[req[r].candidate_id] = NoRow
                 /\ req'[r] # req[r]
                 /\ req'[r].resp.status_code # 500 )
               => /\ req'[r].pc = "done"
                  /\ req'[r].resp = HttpResponse(404, "Candidate not found.", None, None)
                  /\ UNCHANGED <<feature_candidates, tag_definitions, score_definitions>>
            /\ ( /\ req[r].pc = "update"
                 /\ feature_candidates[req[r].candidate_id] = NoRow
                 /\ req'[r] # req[r] )
               => UNCHANGED <<feature_candidates, tag_definitions, score_definitions>>]_vars

C7_Witness ==
    \E r \in Requests :
        /\ Done(r) /\ req[r].action = "adopt"
        /\ req[r].resp.status_code = 404
        /\ req[r].rowcount = 0
        /\ feature_candidates[req[r].candidate_id] = NoRow

\* The candidate of the call of worker r has a type that names no master
\* table.
OtherType(r) ==
    /\ req[r].candidate_id \in CandIds
    /\ feature_candidates[req[r].candidate_id] # NoRow
    /\ feature_candidates[req[r].candidate_id].type \notin {"tag", "score"}

\* The 200 answer of an adopt call.
Adopted200(r) == HttpResponse(200, None, req[r].candidate_id, "adopted")

\* C11 as stated: every finished adopt call on a candidate that existed when
\* its UPDATE ran and whose type is neither "tag" nor "score" answered 200
\* with {candidate_id, status: "adopted"} and inserted no row.
C11_OtherTypeAnswers200 ==
    \A r \in Requests :
        (Done(r) /\ req[r].action = "adopt" /\ req[r].rowcount = 1 /\ OtherType(r))
        => /\ req[r].resp = Adopted200(r)
           /\ req[r].tag_ins = <<>> /\ req[r].score_ins = <<>>

\* C11 (amended): an adopt call on an existing candidate whose type is
\* neither "tag" nor "score", in which no database statement raises, sets
\* the candidate's status to "adopted" (and its updated_at), inserts no row
\* into either definition table and answers 200 with {candidate_id, status:
\* "adopted"}; when its SELECT raises it answers 500, also without an insert.
C11_OtherTypeAdoptedNoInsert ==
    /\ [](\A r \in Requests :
            (Done(r) /\ req[r].action = "adopt" /\ req[r].rowcount = 1 /\ OtherType(r))
            => /\ req[r].tag_ins = <<>> /\ req[r].score_ins = <<>>
               /\ req[r].writes = 1
               /\ \/ req[r].resp = Adopted200(r)
                  \/ req[r].resp.status_code = 500 /\ req[r].resp.message # None)
    /\ [][\A r \in Requests :
            (req[r].action = "adopt" /\ InFlight(r) /\ OtherType(r)
             /\ req'[r] # req[r] /\ req'[r].resp.status_code # 500)
            => /\ UNCHANGED <<tag_definitions, score_definitions>>
               /\ req[r].pc = "update" =>
                    /\ req'[r].pc = "select"
                    /\ req'[r].rowcount = 1
                    /\ feature_candidates' =
                         [feature_candidates EXCEPT
                            ![req[r].candidate_id].status = "adopted",
                            ![req[r].candidate_id].updated_at = req[r].now]
               /\ req[r].pc = "select" =>
                    /\ req'[r].pc = "done"
                    /\ req'[r].resp = Adopted200(r)
                    /\ UNCHANGED feature_candidates
               /\ req[r].pc \in {"update", "select"}]_vars

C11_Witness ==
    \E r \in Requests :
        /\ Done(r) /\ req[r].action = "adopt" /\ req[r].rowcount = 1
        /\ req[r].resp = Adopted200(r)
        /\ feature_candidates[req[r].candidate_id].type = "behavior_feature"
        /\ feature_candidates[req[r].candidate_id].status = "adopted"
        /\ feature_candidates[req[r].candidate_id].updated_at = req[r].now
        /\ tag_definitions = <<>> /\ score_definitions = <<>>

-----------------------------------------------------------------------------
(* Claims about generate_tag_candidates *)

\* The body's payload as the handler reads it.
ReceivedPayload == GenPayload(gen.body)

\* A JSON number.
Numeric(v) == v.t \in {"int", "float"}

\* The integer a JSON number stands for once its fraction is dropped.
WholePart(v) ==
    IF v.t = "int" THEN v.n
    ELSE IF v.n >= 0 THEN v.n \div 10 ELSE -((-v.n) \div 10)

\* The value of a reserved field, or the default when it is absent.
GivenOr(key, default) ==
    IF key \in DOMAIN ReceivedPayload THEN WholePart(ReceivedPayload[key]) ELSE default

Clamp(lo, hi, n) == IF n < lo THEN lo ELSE IF n > hi THEN hi ELSE n

\* The three reserved fields are JSON numbers or absent.
ReservedNumeric ==
    /\ gen.body.kind # "array"
    /\ \A k \in Reserved \cap DOMAIN ReceivedPayload : Numeric(ReceivedPayload[k])

\* C8: a request whose reserved fields are numeric or absent is not refused,
\* and the payload posted to the notebook endpoint holds sample_size in
\* [1, 5000], max_candidates in [1, 10] and min_candidates in
\* [1, max_candidates], each the clamp of the given number or of the default
\* 1000, 10, 3; the reserved names hold the clamped integers, never the
\* caller's values, and every other field of the caller is there unchanged.
C8_PostedPayloadClamped ==
    /\ (gen.pc # "idle" /\ ReservedNumeric) => gen.resp.status_code # 400
    /\ \A i \in DOMAIN notebook_calls :
         LET p == notebook_calls[i] IN
         ReservedNumeric =>
           /\ DOMAIN p = Reserved \cup DOMAIN ReceivedPayload
           /\ \A k \in Reserved : p[k].t = "int"
           /\ 1 <= p["sample_size"].n /\ p["sample_size"].n <= 5000
           /\ 1 <= p["max_candidates"].n /\ p["max_candidates"].n <= 10
           /\ 1 <= p["min_candidates"].n
           /\ p["min_candidates"].n <= p["max_candidates"].n
           /\ p["sample_size"].n = Clamp(1, 5000, GivenOr("sample_size", 1000))
           /\ p["max_candidates"].n = Clamp(1, 10, GivenOr("max_candidates", 10))
           /\ p["min_candidates"].n =
                Clamp(1, p["max_candidates"].n, GivenOr("min_candidates", 3))
           /\ \A k \in DOMAIN ReceivedPayload \ Reserved : p[k] = ReceivedPayload[k]

\* max_candidates = 5, min_candidates = 8 was posted as 5 and 5, with the
\* caller's other field.
C8_Witness ==
    /\ Len(notebook_calls) = 1
    /\ DOMAIN ReceivedPayload = Keys
    /\ ReceivedPayload["max_candidates"] = IntVal(5)
    /\ ReceivedPayload["min_candidates"] = IntVal(8)
    /\ ReceivedPayload["sample_size"] = IntVal(5001)
    /\ notebook_calls[1]["max_candidates"] = IntVal(5)
    /\ notebook_calls[1]["min_candidates"] = IntVal(5)
    /\ notebook_calls[1]["sample_size"] = IntVal(5000)
    /\ notebook_calls[1]["segment"] = StrVal(<<"a">>)

\* A value that is no number: a boolean, null, or a string that is not
\* made of digits (NaN and strings of digits are left aside).
NonNumeric(v) ==
    \/ v.t \in {"bool", "null"}
    \/ v.t = "str" /\ \E i \in DOMAIN v.s : v.s[i] \notin Digits

\* A reserved field is present and non-numeric.
NonNumericGiven ==
    \E k \in Reserved \cap DOMAIN ReceivedPayload : NonNumeric(ReceivedPayload[k])

\* C9: a request with a present, non-numeric reserved field is answered 400
\* and calls neither endpoint; the notebook endpoint is called only after
\* validation succeeded and a token was obtained.
C9_NonNumericIs400 ==
    /\ (gen.pc # "idle" /\ NonNumericGiven)
       => /\ gen.pc = "done"
          /\ gen.resp.status_code = 400
          /\ token_calls = 0
          /\ notebook_calls = <<>>
    /\ notebook_calls # <<>>
       => /\ gen.access_token # None
          /\ token_calls = 1
          /\ gen.resp.status_code # 400

-----------------------------------------------------------------------------
(* Claims about _clamp_limit *)

\* The limit parameter is an integer: an optional minus sign and digits.
IsIntegerText(s) ==
    /\ s # <<>>
    /\ LET body == IF Head(s) = "-" THEN Tail(s) ELSE s
       IN  body # <<>> /\ \A i \in DOMAIN body : body[i] \in {"0", "1", "2"}

\* No character of the limit parameter is a digit.
NoDigit(s) == \A i \in DOMAIN s : s[i] \notin {"0", "1", "2"}

\* The integer that an integer text denotes.
RECURSIVE Denotes(_)
Denotes(s) ==
    IF s = <<>> THEN 0
    ELSE IF Head(s) = "-" THEN -Denotes(Tail(s))
    ELSE 10 * Denotes(SubSeq(s, 1, Len(s) - 1))
         + (IF s[Len(s)] = "1" THEN 1 ELSE IF s[Len(s)] = "2" THEN 2 ELSE 0)

\* C10: the effective limit of a request is an integer in [1, 2000]; an
\* integer limit n gives max(1, min(2000, n)); an absent limit, and one that
\* has no digit or has a letter, gives 200; and no answer holds more rows
\* than the limit.
C10_LimitClamped ==
    read.pc = "done" =>
        /\ read.limit \in 1..2000
        /\ Len(read.resp.rows) <= read.limit
        /\ "limit" \notin DOMAIN read.params => read.limit = 200
        /\ "limit" \in DOMAIN read.params =>
             LET s == read.params["limit"].s IN
             /\ (NoDigit(s) \/ \E i \in DOMAIN s : s[i] = "a") => read.limit = 200
             /\ IsIntegerText(s) =>
                  read.limit = (IF Denotes(s) < 1 THEN 1
                                ELSE IF Denotes(s) > 2000 THEN 2000 ELSE Denotes(s))

\* A request with limit=1 answered with one row although two are active.
C10_Witness ==
    /\ read.pc = "done"
    /\ read.handler = "getTagDefinitions"
    /\ read.params = [limit |-> StrVal(<<"-", "1">>)]
    /\ read.limit = 1
    /\ Len(tag_definitions) = 3
    /\ Len(read.resp.rows) = 1
    /\ read.resp.rows[1].created_at = 3

====
